---- MODULE Spec2Model ----
(***************************************************************************)
(* AltTabHide: a GNOME Shell extension that hides chosen applications from *)
(* the Alt-Tab switchers, and its preferences panel.                       *)
(*                                                                         *)
(* Spec      : the extension (extension.js, both shipped variants): the    *)
(*             enable/disable lifecycle, the overrides it installs on the  *)
(*             host's switcher prototypes through an InjectionManager, and *)
(*             the host's calls of the overridden routines.                *)
(* PrefsSpec : the preferences panel (prefs.js): check boxes and remove    *)
(*             buttons that rewrite the persisted hidden-apps key.         *)
(***************************************************************************)
EXTENDS Integers, Sequences, FiniteSets, TLC

\* ------------------------------------------------------------------ bounds
MaxEnables == 2      \* enable() calls in one behaviour (object ids 1..MaxEnables)
MaxWindows == 2      \* length of a window list / of the app switcher's entry list

\* ------------------------------------------------------------- value space
NULL == 0            \* null object reference / null handler id

AppIds == {"calc", "files"}      \* identifiers of installed applications
NoApp == "none"                  \* the tracker / the icon has no application
GoneId == "gone"                 \* an identifier with no installed application
PrefIds == AppIds \cup {GoneId}  \* identifiers hidden-apps may hold

\* The prototypes _setupAltTabFiltering overrides, in the order it does.
Routines ==
  << "AppSwitcherPopup._init",
     "WindowSwitcherPopup._getWindowList",
     "WindowCyclerPopup._getWindows",
     "GroupCyclerPopup._getWindows" >>

RoutineNames == { Routines[i] : i \in 1..Len(Routines) }
WindowRoutines == RoutineNames \ {"AppSwitcherPopup._init"}

Range(s) == { s[i] : i \in 1..Len(s) }

SeqsUpTo(S, n) == UNION { [1..k -> S] : k \in 0..n }

IsDuplicateFree(s) == \A i, j \in 1..Len(s) : s[i] = s[j] => i = j

\* Values of the hidden-apps key: schema type "as", written only by the panel.
HiddenLists == { s \in SeqsUpTo(PrefIds, Cardinality(PrefIds)) : IsDuplicateFree(s) }

\* The values among them that name installed applications only.
InstalledHiddenLists == { s \in HiddenLists : Range(s) \subseteq AppIds }

\* ------------------------------------------------------------------- state
VARIABLES
  variant,            \* "com" or "io": which shipped extension.js runs
  hiddenApps,         \* persisted value of the hidden-apps key
  desktop,            \* host: the open windows / running applications, in order
  settings,           \* this._settings: NULL or the id of a Gio.Settings object
  injectionManager,   \* this._injectionManager: NULL or the id of a manager
  settingsChangedId,  \* this._settingsChangedId: NULL or a handler id
  savedMethods,       \* the held manager's saved originals, per routine
  proto,              \* per host routine: the override layers installed on it
  connected,          \* Gio.Settings objects carrying a changed:: handler
  enables,            \* objects created so far (fresh ids)
  reentered,          \* enable() ran while an earlier one was not undone
  lifecycle,          \* the last lifecycle call and what it did
  lastCall,           \* the last call the host made, with what it returned
  checkboxes,         \* panel: installed app id -> check box active
  panelLog            \* panel: the last two handler runs, with the values before

extVars == << variant, hiddenApps, desktop, settings, injectionManager, settingsChangedId,
              savedMethods, proto, connected, enables, reentered, lifecycle,
              lastCall >>
prefsVars == << checkboxes, panelLog >>
vars == << extVars, prefsVars >>

Idle == [op |-> "idle"]

NoSaved == [r \in RoutineNames |-> [has |-> FALSE, orig |-> << >>]]

\* ------------------------------------------------------- InjectionManager
\* The host's InjectionManager as the extension uses it.  A layer on a routine
\* is named by the id of the manager that installed it; << >> is the host's
\* original routine.
\* overrideMethod(prototype, name, f): save what is installed, install f(saved).
overrideMethod(st, m, r) ==
  [st EXCEPT !.saved[r] = [has |-> TRUE, orig |-> st.proto[r]],
             !.proto[r] = Append(st.proto[r], m)]

\* clear() that forgets the saved originals without putting them back.
clearNoRestore(st) == [st EXCEPT !.saved = NoSaved]

\* clear(): put every saved original back and forget it.
clear(st) ==
  [st EXCEPT !.proto = [r \in RoutineNames |->
                          IF st.saved[r].has THEN st.saved[r].orig ELSE st.proto[r]],
             !.saved = NoSaved]

\* ----------------------------------------------------------------- enable
\* Where enable() may stop with an exception.
StopGetSettings == "getSettings"     \* this.getSettings() throws
StopOverride == "override"           \* k overrides installed, the next prototype is missing
StopConnect == "connect"             \* this._settings.connect throws
Completed == "done"

Stops ==
  {[at |-> StopGetSettings, k |-> 0]}
    \cup {[at |-> StopOverride, k |-> k] : k \in 0..(Len(Routines) - 1)}
    \cup {[at |-> StopConnect, k |-> Len(Routines)]}
    \cup {[at |-> Completed, k |-> Len(Routines)]}

RECURSIVE installOverrides(_, _, _)
installOverrides(st, m, k) ==
  IF k = 0 THEN st
  ELSE overrideMethod(installOverrides(st, m, k - 1), m, Routines[k])

\* _setupAltTabFiltering, stopping after k overrides.
setupAltTabFiltering(st, m, k) == installOverrides(st, m, k)

ExtState ==
  [settings |-> settings, manager |-> injectionManager, changedId |-> settingsChangedId,
   saved |-> savedMethods, proto |-> proto, connected |-> connected]

enable(st, id, stop) ==
  IF stop.at = StopGetSettings THEN st
  ELSE
    LET s1 == [st EXCEPT !.settings = id, !.manager = id, !.saved = NoSaved]
        s2 == setupAltTabFiltering(s1, id, stop.k)
    IN IF stop.at = Completed /\ variant = "com"
       THEN [s2 EXCEPT !.changedId = id, !.connected = s2.connected \cup {id}]
       ELSE s2

\* ---------------------------------------------------------------- disable
\* Handler ids are unique in the process: disconnect(id) on an object removes
\* the handler only when it is that object's.
disconnect(st) ==
  [st EXCEPT !.connected = IF st.changedId = st.settings
                           THEN st.connected \ {st.changedId} ELSE st.connected,
             !.changedId = NULL]

disableCom(st) ==
  LET s1 == IF st.settings # NULL /\ st.changedId # NULL THEN disconnect(st) ELSE st
      s2 == IF s1.manager # NULL THEN [clear(s1) EXCEPT !.manager = NULL] ELSE s1
      \* run_dispose() destroys the object's signal handlers
      s3 == IF s2.settings # NULL
            THEN [s2 EXCEPT !.connected = s2.connected \ {s2.settings}, !.settings = NULL]
            ELSE s2
  IN [state |-> s3, error |-> FALSE]

disableIo(st) ==
  LET s2 == IF st.manager # NULL THEN [clear(st) EXCEPT !.manager = NULL] ELSE st
      s3 == IF s2.settings # NULL THEN [s2 EXCEPT !.settings = NULL] ELSE s2
  IN [state |-> s3, error |-> FALSE]

\* disable() without the null checks: a call on null throws before anything else.
disableUnguarded(st) ==
  IF st.manager = NULL \/ st.settings = NULL
  THEN [state |-> st, error |-> TRUE]
  ELSE IF variant = "com" THEN disableCom(st) ELSE disableIo(st)

disable(st) == IF variant = "com" THEN disableCom(st) ELSE disableIo(st)

\* ------------------------------------------------------- filter predicates
AppOrNone == AppIds \cup {NoApp}

\* _getHiddenApps without the check for a missing settings object, reading
\* the key all the same.
getHiddenAppsNoNullCheck == hiddenApps

\* _getHiddenApps
getHiddenApps == IF settings = NULL THEN << >> ELSE hiddenApps

\* Array.prototype.includes: a scan from the front.
RECURSIVE includes(_, _)
includes(h, x) ==
  IF h = << >> THEN FALSE ELSE (Head(h) = x \/ includes(Tail(h), x))

\* _shouldHideApp that compares with the first hidden identifier only.
shouldHideAppFirstOnly(app) ==
  LET h == getHiddenApps
  IN IF Len(h) = 0 \/ app = NoApp THEN FALSE ELSE Head(h) = app

\* app is the handle's identifier, NoApp for a null handle.
shouldHideApp(app) ==
  LET h == getHiddenApps
  IN IF Len(h) = 0 \/ app = NoApp THEN FALSE ELSE includes(h, app)

\* _shouldHideWindow without the "no application" check: hides what it cannot resolve.
shouldHideWindowNoAppCheck(window) ==
  LET h == getHiddenApps
  IN IF Len(h) = 0 THEN FALSE
     ELSE IF window.app = NoApp THEN TRUE ELSE includes(h, window.app)

\* window.app is what tracker.get_window_app(window) returns (its id, or NoApp).
shouldHideWindow(window) ==
  LET h == getHiddenApps
  IN IF Len(h) = 0 THEN FALSE
     ELSE IF window.app = NoApp THEN FALSE ELSE includes(h, window.app)

\* ------------------------------------------------- window-list overrides
\* A filter that keeps the hidden windows instead of the others.
RECURSIVE filterWindowsInverted(_)
filterWindowsInverted(windows) ==
  IF windows = << >> THEN << >>
  ELSE (IF shouldHideWindow(Head(windows)) THEN << Head(windows) >> ELSE << >>)
         \o filterWindowsInverted(Tail(windows))

\* A filter done in place with splice() while walking forward: the window after
\* a removed one is never examined.
RECURSIVE filterWindowsSpliceForward(_)
filterWindowsSpliceForward(windows) ==
  IF windows = << >> THEN << >>
  ELSE IF shouldHideWindow(Head(windows))
       THEN (IF Len(windows) >= 2
             THEN << windows[2] >> \o filterWindowsSpliceForward(Tail(Tail(windows)))
             ELSE << >>)
       ELSE << Head(windows) >> \o filterWindowsSpliceForward(Tail(windows))

\* windows.filter(window => !self._shouldHideWindow(window))
RECURSIVE filterWindows(_)
filterWindows(windows) ==
  IF windows = << >> THEN << >>
  ELSE (IF ~shouldHideWindow(Head(windows)) THEN << Head(windows) >> ELSE << >>)
         \o filterWindows(Tail(windows))

\* The routine installed on the prototype: the original under n override layers.
RECURSIVE callWindowRoutine(_, _)
callWindowRoutine(n, windows) ==
  IF n = 0 THEN windows
  ELSE filterWindows(callWindowRoutine(n - 1, windows))

\* Window lists the original routines return: distinct windows, each with the
\* application the tracker resolves it to.
WindowLists ==
  UNION { { [i \in 1..k |-> [id |-> i, app |-> f[i]]] : f \in [1..k -> AppOrNone] }
          : k \in 0..MaxWindows }

\* -------------------------------------------- AppSwitcherPopup._init override
\* splice(idx, 1) with idx counted from 1; past the end it removes nothing.
RemoveAt(s, idx) ==
  IF idx \in 1..Len(s)
  THEN [i \in 1..(Len(s) - 1) |-> IF i < idx THEN s[i] ELSE s[i + 1]]
  ELSE s

\* An entry of the application switcher is an icon: a handle (id) and its
\* application's identifier (app), NoApp when appIcon or appIcon.app is unset.
\* items: this._items is set; switcherList: this._switcherList is set;
\* removeItem: it has a removeItem function; icons: "same" when
\* _switcherList.icons is the array _items is, "copy" / "empty" when it is
\* another array (with the same entries / with none), "missing" when unset.
ExpectedShape ==
  [items |-> TRUE, switcherList |-> TRUE, removeItem |-> TRUE, icons |-> "same"]

Shapes ==
  { sh \in [items : BOOLEAN, switcherList : BOOLEAN, removeItem : BOOLEAN,
            icons : {"same", "copy", "empty", "missing"}] :
      /\ (~sh.switcherList => (~sh.removeItem /\ sh.icons = "missing"))
      /\ (~sh.items => (sh.icons # "same" /\ (sh.switcherList => sh.removeItem))) }

Handles(list) == [i \in 1..Len(list) |-> list[i].id]

\* The popup as the host's original _init leaves it.
originalInit(sh, entries) ==
  LET iconList == IF sh.icons \in {"same", "copy"} THEN entries ELSE << >>
  IN [items |-> [defined |-> sh.items, list |-> IF sh.items THEN entries ELSE << >>],
      switcherList |-> sh.switcherList,
      removeItem |-> sh.removeItem,
      icons |-> [defined |-> sh.icons # "missing", list |-> iconList],
      alias |-> (sh.icons = "same"),
      visual |-> IF sh.switcherList
                 THEN (IF sh.icons = "missing" THEN Handles(entries) ELSE Handles(iconList))
                 ELSE << >>]

\* The first loop: the indices of the entries of hidden applications, ascending.
RECURSIVE indicesToRemove(_, _, _)
indicesToRemove(list, h, i) ==
  IF i > Len(list) THEN << >>
  ELSE (IF list[i].app # NoApp /\ includes(h, list[i].app) THEN << i >> ELSE << >>)
         \o indicesToRemove(list, h, i + 1)

\* One round of the second loop: icons.splice(idx, 1); removeItem(idx).
removeEntry(p, idx) ==
  IF ~(p.switcherList /\ p.removeItem) THEN [popup |-> p, error |-> FALSE]
  ELSE IF ~p.icons.defined THEN [popup |-> p, error |-> TRUE]
  ELSE [popup |-> [p EXCEPT !.icons.list = RemoveAt(p.icons.list, idx),
                            !.items.list = IF p.alias THEN RemoveAt(p.items.list, idx)
                                           ELSE p.items.list,
                            !.visual = RemoveAt(p.visual, idx)],
        error |-> FALSE]

\* The second loop run from the lowest index up.
RECURSIVE removeAscending(_, _, _)
removeAscending(p, idxs, i) ==
  IF i > Len(idxs) THEN [popup |-> p, error |-> FALSE]
  ELSE LET r == removeEntry(p, idxs[i])
       IN IF r.error THEN r ELSE removeAscending(r.popup, idxs, i + 1)

\* The second loop: i from indicesToRemove.length - 1 down to 0.
RECURSIVE removeDescending(_, _, _)
removeDescending(p, idxs, i) ==
  IF i = 0 THEN [popup |-> p, error |-> FALSE]
  ELSE LET r == removeEntry(p, idxs[i])
       IN IF r.error THEN r ELSE removeDescending(r.popup, idxs, i - 1)

\* The override's body after the original _init has run.
filterItemsAscending(p) ==
  IF ~(p.items.defined /\ Len(p.items.list) > 0) THEN [popup |-> p, error |-> FALSE]
  ELSE
    LET idxs == indicesToRemove(p.items.list, getHiddenApps, 1)
        r == removeAscending(p, idxs, 1)
    IN IF r.error \/ ~r.popup.switcherList THEN [popup |-> r.popup, error |-> TRUE]
       ELSE [popup |-> [r.popup EXCEPT !.items = r.popup.icons, !.alias = TRUE],
             error |-> FALSE]

filterItems(p) ==
  IF ~(p.items.defined /\ Len(p.items.list) > 0) THEN [popup |-> p, error |-> FALSE]
  ELSE
    LET idxs == indicesToRemove(p.items.list, getHiddenApps, 1)
        r == removeDescending(p, idxs, Len(idxs))
    IN \* this._items = this._switcherList.icons
       IF r.error \/ ~r.popup.switcherList THEN [popup |-> r.popup, error |-> TRUE]
       ELSE [popup |-> [r.popup EXCEPT !.items = r.popup.icons, !.alias = TRUE],
             error |-> FALSE]

\* The routine installed on the prototype: the original under n override layers;
\* an exception in a layer leaves the layers above it unrun.
RECURSIVE callInit(_, _, _)
callInit(n, sh, entries) ==
  IF n = 0 THEN [popup |-> originalInit(sh, entries), error |-> FALSE]
  ELSE LET r == callInit(n - 1, sh, entries)
       IN IF r.error THEN r ELSE filterItems(r.popup)

\* ------------------------------------------------------ extension: actions
NoLifecycle ==
  [op |-> "none", at |-> "none", k |-> 0, error |-> FALSE, restored |-> 0,
   hadManager |-> FALSE, hadSettings |-> FALSE]

Install(st) ==
  /\ settings' = st.settings
  /\ injectionManager' = st.manager
  /\ settingsChangedId' = st.changedId
  /\ savedMethods' = st.saved
  /\ proto' = st.proto
  /\ connected' = st.connected

\* The extension object after its constructor; the panel is not open.
Init ==
  /\ variant \in {"com", "io"}
  /\ hiddenApps \in InstalledHiddenLists
  /\ desktop \in WindowLists
  /\ settings = NULL
  /\ injectionManager = NULL
  /\ settingsChangedId = NULL
  /\ savedMethods = NoSaved
  /\ proto = [r \in RoutineNames |-> << >>]
  /\ connected = {}
  /\ enables = 0
  /\ reentered = FALSE
  /\ lifecycle = NoLifecycle
  /\ lastCall = Idle
  /\ checkboxes = [a \in AppIds |-> FALSE]
  /\ panelLog = << >>

\* enable() is called and runs until stop.
Enable(stop) ==
  /\ variant = "io" => stop.at # StopConnect
  /\ stop.at # StopGetSettings => enables < MaxEnables
  /\ Install(enable(ExtState, enables + 1, stop))
  /\ enables' = IF stop.at = StopGetSettings THEN enables ELSE enables + 1
  /\ reentered' = (reentered \/ (stop.at # StopGetSettings
                                   /\ (injectionManager # NULL \/ settings # NULL)))
  /\ lifecycle' = [NoLifecycle EXCEPT !.op = "enable", !.at = stop.at, !.k = stop.k,
                                      !.error = (stop.at # Completed)]
  /\ lastCall' = Idle
  /\ UNCHANGED << variant, hiddenApps, desktop, prefsVars >>

\* The host enables the extension, which is not enabled; enable() completes.
HostEnable ==
  /\ injectionManager = NULL
  /\ settings = NULL
  /\ Enable([at |-> Completed, k |-> Len(Routines)])

Disable ==
  LET d == disable(ExtState)
  IN /\ Install(d.state)
     /\ lifecycle' = [NoLifecycle EXCEPT
                        !.op = "disable", !.error = d.error,
                        !.restored = Cardinality({r \in RoutineNames : savedMethods[r].has}),
                        !.hadManager = (injectionManager # NULL),
                        !.hadSettings = (settings # NULL)]
     /\ lastCall' = Idle
     /\ UNCHANGED << variant, hiddenApps, desktop, enables, reentered, prefsVars >>

\* The hidden-apps key is rewritten (by the preferences panel); the connected
\* handler only logs.
SettingsChanged(h) ==
  /\ h # hiddenApps
  /\ hiddenApps' = h
  /\ lastCall' = Idle
  /\ UNCHANGED << variant, desktop, settings, injectionManager, settingsChangedId,
                  savedMethods, proto, connected, enables, reentered, lifecycle,
                  prefsVars >>

\* Windows open and close.
DesktopChanged(w) ==
  /\ w # desktop
  /\ desktop' = w
  /\ lastCall' = Idle
  /\ UNCHANGED << variant, hiddenApps, settings, injectionManager, settingsChangedId,
                  savedMethods, proto, connected, enables, reentered, lifecycle,
                  prefsVars >>

Observe(call) ==
  /\ lastCall' = call
  /\ UNCHANGED << variant, hiddenApps, desktop, settings, injectionManager,
                  settingsChangedId, savedMethods, proto, connected, enables,
                  reentered, lifecycle, prefsVars >>

\* The host opens a window switcher: it calls what is installed on r; the
\* original routine returns the open windows.
CallWindowList(r) ==
  Observe([op |-> r, windows |-> desktop, hidden |-> getHiddenApps,
           layers |-> Len(proto[r]),
           out |-> callWindowRoutine(Len(proto[r]), desktop)])

\* The host calls r again and its original routine now returns the list the
\* last call of r returned (the windows filtered out then are gone).
CallWindowListOnFiltered(r) ==
  /\ lastCall.op = r
  /\ lastCall.layers > 0
  /\ Observe([op |-> "refilter", routine |-> r, first |-> lastCall.out,
              unfiltered |-> lastCall.windows,
              hidden |-> getHiddenApps, layers |-> Len(proto[r]),
              out |-> callWindowRoutine(Len(proto[r]), lastCall.out)])

\* The host opens the application switcher: new AppSwitcherPopup(); the
\* original _init makes one entry per running application.
CallInit(sh) ==
  LET r == callInit(Len(proto["AppSwitcherPopup._init"]), sh, desktop)
  IN Observe([op |-> "AppSwitcherPopup._init", shape |-> sh, entries |-> desktop,
              hidden |-> getHiddenApps,
              layers |-> Len(proto["AppSwitcherPopup._init"]),
              original |-> originalInit(sh, desktop),
              popup |-> r.popup, error |-> r.error])

CallShouldHideApp(app) ==
  Observe([op |-> "_shouldHideApp", app |-> app, hidden |-> getHiddenApps,
           out |-> shouldHideApp(app)])

CallShouldHideWindow(app) ==
  Observe([op |-> "_shouldHideWindow", app |-> app, hidden |-> getHiddenApps,
           out |-> shouldHideWindow([id |-> 1, app |-> app])])

Next ==
  \/ HostEnable
  \/ Disable
  \/ \E h \in InstalledHiddenLists : SettingsChanged(h)
  \/ \E w \in WindowLists : DesktopChanged(w)
  \/ \E r \in WindowRoutines : CallWindowList(r)
  \/ \E r \in WindowRoutines : CallWindowListOnFiltered(r)
  \/ \E sh \in Shapes : CallInit(sh)
  \/ \E a \in AppOrNone : CallShouldHideApp(a)
  \/ \E a \in AppOrNone : CallShouldHideWindow(a)

Spec == Init /\ [][Next]_vars

\* Any caller, any order: enable() may stop part-way and may be called again
\* before disable().
LifecycleNext ==
  \/ \E stop \in Stops : Enable(stop)
  \/ Disable

\* No window is open: the lifecycle does not read the desktop.
LifecycleInit == Init /\ desktop = << >>

LifecycleSpec == LifecycleInit /\ [][LifecycleNext]_vars

\* enable() is called whether or not an earlier enable() was undone, and
\* completes; the host goes on calling what is installed.
Reenable == Enable([at |-> Completed, k |-> Len(Routines)])

ReentrantNext ==
  \/ Reenable
  \/ Disable
  \/ \E r \in WindowRoutines : CallWindowList(r)
  \/ \E sh \in Shapes : CallInit(sh)
  \/ \E a \in AppOrNone : CallShouldHideApp(a)
  \/ \E a \in AppOrNone : CallShouldHideWindow(a)

ReentrantSpec == Init /\ [][ReentrantNext]_vars

\* ------------------------------------------------------- preferences panel
\* hiddenApps.filter(id => id !== appId)
RECURSIVE filterOut(_, _)
filterOut(h, appId) ==
  IF h = << >> THEN << >>
  ELSE (IF Head(h) # appId THEN << Head(h) >> ELSE << >>) \o filterOut(Tail(h), appId)

\* _onAppToggled with the bodies of its two branches exchanged.
onAppToggledSwapped(h, appId, isActive) ==
  IF isActive /\ ~includes(h, appId) THEN filterOut(h, appId)
  ELSE IF ~isActive /\ includes(h, appId) THEN Append(h, appId)
  ELSE h

\* _onAppToggled that never removes.
onAppToggledNoRemove(h, appId, isActive) ==
  IF isActive /\ ~includes(h, appId) THEN Append(h, appId) ELSE h

\* _onAppToggled: the value it writes to hidden-apps.
onAppToggled(h, appId, isActive) ==
  IF isActive /\ ~includes(h, appId) THEN Append(h, appId)
  ELSE IF ~isActive /\ includes(h, appId) THEN filterOut(h, appId)
  ELSE h

Panel == [hidden |-> hiddenApps, boxes |-> checkboxes]

\* checkbox.set_active(value): a change of state emits "toggled", whose
\* handler calls _onAppToggled(appId, checkbox.get_active()).
setActive(p, appId, value) ==
  IF p.boxes[appId] = value THEN p
  ELSE [hidden |-> onAppToggled(p.hidden, appId, value),
        boxes |-> [p.boxes EXCEPT ![appId] = value]]

\* _removeHiddenApp that rewrites the key and leaves the check box alone.
removeHiddenAppNoReset(p, appId) ==
  [p EXCEPT !.hidden = filterOut(p.hidden, appId)]

\* _removeHiddenApp that drops the last identifier instead of appId.
removeHiddenAppLast(p, appId) ==
  LET p1 == [p EXCEPT !.hidden = IF p.hidden = << >> THEN << >>
                                 ELSE SubSeq(p.hidden, 1, Len(p.hidden) - 1)]
  IN IF appId \in DOMAIN p1.boxes THEN setActive(p1, appId, FALSE) ELSE p1

\* _removeHiddenApp: rewrite the key, then reset the check box if there is one.
removeHiddenApp(p, appId) ==
  LET p1 == [p EXCEPT !.hidden = filterOut(p.hidden, appId)]
  IN IF appId \in DOMAIN p1.boxes THEN setActive(p1, appId, FALSE) ELSE p1

\* The panel after _buildUI: one check box per installed application, active
\* when its identifier is hidden.
PrefsInit ==
  /\ variant = "com"
  /\ hiddenApps \in HiddenLists
  /\ desktop = << >>
  /\ settings = NULL
  /\ injectionManager = NULL
  /\ settingsChangedId = NULL
  /\ savedMethods = NoSaved
  /\ proto = [r \in RoutineNames |-> << >>]
  /\ connected = {}
  /\ enables = 0
  /\ reentered = FALSE
  /\ lifecycle = NoLifecycle
  /\ lastCall = Idle
  /\ checkboxes = [a \in AppIds |-> includes(hiddenApps, a)]
  /\ panelLog = << >>

Logged(entry) ==
  panelLog' = IF Len(panelLog) < 2 THEN Append(panelLog, entry)
              ELSE << panelLog[2], entry >>

PanelStep(p, entry) ==
  /\ hiddenApps' = p.hidden
  /\ checkboxes' = p.boxes
  /\ Logged(entry)
  /\ UNCHANGED << variant, desktop, settings, injectionManager, settingsChangedId,
                  savedMethods, proto, connected, enables, reentered, lifecycle,
                  lastCall >>

\* The user clicks the check box of appId.
CheckboxToggled(appId) ==
  PanelStep(setActive(Panel, appId, ~checkboxes[appId]),
            [op |-> "toggled", app |-> appId, active |-> ~checkboxes[appId],
             before |-> hiddenApps])

\* The clicked handler of a remove button runs for appId.
RemoveClicked(appId) ==
  PanelStep(removeHiddenApp(Panel, appId),
            [op |-> "remove", app |-> appId, active |-> FALSE,
             before |-> hiddenApps])

PrefsNext ==
  \/ \E a \in AppIds : CheckboxToggled(a)
  \/ \E a \in PrefIds : RemoveClicked(a)

PrefsSpec == PrefsInit /\ [][PrefsNext]_vars

\* ================================================================== claims
InitRoutine == "AppSwitcherPopup._init"

\* What the extension reads as the hidden set is the persisted key whenever a
\* settings object is held (calls are recorded with the value they read).
ReadsPersisted == settings # NULL => lastCall.hidden = hiddenApps

\* C1: for every hidden-app sequence H and every application handle with
\* identifier c, _shouldHideApp returns true if and only if c is an element
\* of H; for the empty H it returns false for every c.
C1_ShouldHideAppIffMember ==
  (lastCall.op = "_shouldHideApp" /\ lastCall.app # NoApp)
    => /\ ReadsPersisted
       /\ lastCall.out <=> (lastCall.app \in Range(lastCall.hidden))
       /\ lastCall.hidden = << >> => ~lastCall.out

C1_Witness ==
  /\ lastCall.op = "_shouldHideApp"
  /\ Len(lastCall.hidden) = 2
  /\ lastCall.app = lastCall.hidden[2]
  /\ lastCall.out

\* C2: each wrapped window-list routine returns exactly the subsequence of the
\* original routine's windows whose application's identifier is not in H, in
\* the original order.
C2_WindowListIsFilteredSubsequence ==
  (lastCall.op \in WindowRoutines /\ lastCall.layers > 0)
    => LET Kept(w) == w.app \notin Range(lastCall.hidden)
       IN /\ ReadsPersisted
          /\ lastCall.out = SelectSeq(lastCall.windows, Kept)

\* H = [calc], windows of [calc, files]: the files window alone is returned.
C2_Witness ==
  /\ lastCall.op \in WindowRoutines
  /\ lastCall.layers > 0
  /\ lastCall.hidden = << "calc" >>
  /\ Len(lastCall.windows) = 2
  /\ lastCall.windows[1].app = "calc"
  /\ lastCall.windows[2].app = "files"
  /\ lastCall.out = << lastCall.windows[2] >>

\* C3: after the wrapped AppSwitcherPopup._init, on the shape the host's _init
\* leaves: no remaining entry is of a hidden application, every other entry is
\* still there in its original relative order, and the visual list matches the
\* icons position by position.
C3_InitRemovesExactlyHidden ==
  (lastCall.op = InitRoutine /\ lastCall.layers > 0 /\ lastCall.shape = ExpectedShape)
    => LET Kept(e) == e.app \notin Range(lastCall.hidden)
           p == lastCall.popup
       IN /\ ReadsPersisted
          /\ ~lastCall.error
          /\ \A i \in 1..Len(p.icons.list) : p.icons.list[i].app \notin Range(lastCall.hidden)
          /\ p.icons.list = SelectSeq(lastCall.entries, Kept)
          /\ p.items = p.icons
          /\ p.items.defined
          /\ p.visual = Handles(p.icons.list)

C3_Witness ==
  /\ lastCall.op = InitRoutine
  /\ lastCall.layers > 0
  /\ lastCall.shape = ExpectedShape
  /\ Len(lastCall.entries) = 2
  /\ Len(lastCall.popup.items.list) = 1
  /\ lastCall.popup.visual = << 2 >>

\* C4 (as stated): whenever disable() has returned, each of the four host
\* routines is the host's original again, after any sequence of enable() and
\* disable() calls.
C4_DisableRestoresAfterAnySequence ==
  lifecycle.op = "disable" => \A r \in RoutineNames : proto[r] = << >>

\* C4 (amended): whenever disable() has returned, each of the four host
\* routines is the host's original again, provided no enable() that got past
\* getSettings() ran while the object still held the injection manager of an
\* earlier enable().
C4_DisableRestoresWhenNotReentered ==
  (lifecycle.op = "disable" /\ ~reentered)
    => \A r \in RoutineNames : proto[r] = << >>

C4_Witness ==
  /\ lifecycle.op = "disable"
  /\ lifecycle.restored = Len(Routines)
  /\ ~reentered

\* C5: when the state the original _init leaves does not have the expected
\* shape, the wrapper raises no error, removes no entry and leaves the popup's
\* lists as the original left them.
ShapeMismatch(call) ==
  \/ ~call.shape.items
  \/ call.entries = << >>
  \/ ~call.shape.switcherList
  \/ ~call.shape.removeItem
  \/ call.shape.icons # "same"

C5_ShapeMismatchFailsOpen ==
  (lastCall.op = InitRoutine /\ lastCall.layers > 0 /\ ShapeMismatch(lastCall))
    => /\ ~lastCall.error
       /\ lastCall.popup.items = lastCall.original.items
       /\ lastCall.popup.icons = lastCall.original.icons
       /\ lastCall.popup.visual = lastCall.original.visual

\* C6: disable() raises no error and leaves no override and no settings
\* subscription of this extension, when it runs with no enable() before it,
\* twice in a row, or after an enable() that stopped part-way.
C6_DisableCleansUp ==
  (lifecycle.op = "disable" /\ ~reentered)
    => /\ ~lifecycle.error
       /\ \A r \in RoutineNames : proto[r] = << >>
       /\ connected = {}
       /\ savedMethods = NoSaved
       /\ injectionManager = NULL /\ settings = NULL /\ settingsChangedId = NULL

\* disable() after an enable() that stopped when two overrides were installed.
C6_Witness ==
  /\ lifecycle.op = "disable"
  /\ lifecycle.restored = 2
  /\ lifecycle.hadSettings
  /\ ~reentered

\* C7: for every H, a window the tracker resolves to no application is not
\* hidden by _shouldHideWindow and is kept by every wrapped window-list routine.
C7_UnresolvedWindowKept ==
  /\ (lastCall.op = "_shouldHideWindow" /\ lastCall.app = NoApp) => ~lastCall.out
  /\ (lastCall.op \in WindowRoutines /\ lastCall.layers > 0)
       => \A i \in 1..Len(lastCall.windows) :
            lastCall.windows[i].app = NoApp
              => \E j \in 1..Len(lastCall.out) : lastCall.out[j] = lastCall.windows[i]

C7_Witness ==
  /\ lastCall.op \in WindowRoutines
  /\ lastCall.layers > 0
  /\ lastCall.hidden # << >>
  /\ Len(lastCall.windows) = 2
  /\ lastCall.windows[2].app = NoApp
  /\ lastCall.out = << lastCall.windows[2] >>

\* C8: the check box of X toggled on and then off leaves hidden-apps equal to
\* its value before the two toggles.
OnThenOff ==
  /\ Len(panelLog) = 2
  /\ panelLog[1].op = "toggled" /\ panelLog[1].active
  /\ panelLog[2].op = "toggled" /\ ~panelLog[2].active
  /\ panelLog[1].app = panelLog[2].app

C8_ToggleOnOffRestores == OnThenOff => hiddenApps = panelLog[1].before

C8_Witness == OnThenOff /\ Len(hiddenApps) = 2

\* C9: from a duplicate-free hidden-apps, after any sequence of panel
\* operations hidden-apps holds no identifier more than once.
C9_NoDuplicates ==
  \A i, j \in 1..Len(hiddenApps) : i # j => hiddenApps[i] # hiddenApps[j]

C9_Witness ==
  /\ Len(panelLog) = 2
  /\ panelLog[1].op = "remove"
  /\ panelLog[2].op = "toggled" /\ panelLog[2].active
  /\ Len(hiddenApps) = 3

\* C10: the remove operation for an identifier that is not in hidden-apps
\* leaves hidden-apps as it was.
RemovedAbsent ==
  /\ Len(panelLog) >= 1
  /\ panelLog[Len(panelLog)].op = "remove"
  /\ panelLog[Len(panelLog)].app \notin Range(panelLog[Len(panelLog)].before)

C10_RemoveAbsentIsNoOp ==
  RemovedAbsent => hiddenApps = panelLog[Len(panelLog)].before

C10_Witness == RemovedAbsent /\ Len(hiddenApps) = 2

\* C11: filtering an already filtered window list with the same H returns it
\* unchanged: filter(filter(W, H), H) = filter(W, H).
C11_FilterIdempotent ==
  lastCall.op = "refilter"
    => /\ ReadsPersisted
       /\ lastCall.out = lastCall.first

\* Two windows of a hidden application were removed by the first pass.
C11_Witness ==
  /\ lastCall.op = "refilter"
  /\ lastCall.hidden # << >>
  /\ Len(lastCall.unfiltered) = 2
  /\ lastCall.unfiltered[1].app = lastCall.unfiltered[2].app
  /\ lastCall.unfiltered[1].app \in Range(lastCall.hidden)
  /\ lastCall.first = << >>
  /\ lastCall.out = << >>

\* C12: while the extension holds no settings object, _getHiddenApps returns
\* the empty sequence, both predicates return false for every candidate, the
\* window-list wrappers still installed return the original list, and the
\* _init wrapper still installed removes nothing (and, on the state the
\* host's _init leaves, raises no error and keeps the entry list).
C12_NoSettingsFailsOpen ==
  (settings = NULL /\ lastCall.op # "idle")
    => /\ lastCall.hidden = << >>
       /\ lastCall.op \in {"_shouldHideApp", "_shouldHideWindow"} => ~lastCall.out
       /\ lastCall.op \in WindowRoutines => lastCall.out = lastCall.windows
       /\ lastCall.op = InitRoutine
            => /\ lastCall.popup.icons = lastCall.original.icons
               /\ lastCall.popup.visual = lastCall.original.visual
               /\ lastCall.shape = ExpectedShape
                    => /\ ~lastCall.error
                       /\ lastCall.popup.items.defined
                       /\ lastCall.popup.items.list = lastCall.entries

\* A wrapper left installed by an enable() that was never undone runs after
\* disable(), with a window of a hidden application in the list.
C12_Witness ==
  /\ settings = NULL
  /\ lastCall.op \in WindowRoutines
  /\ lastCall.layers > 0
  /\ Len(lastCall.windows) = 2
  /\ lastCall.windows[1].app \in Range(hiddenApps)
  /\ lastCall.out = lastCall.windows

\* C13: after any sequence of check box toggles and remove clicks made in the
\* panel, each application's check box is active if and only if the
\* application's identifier is in hidden-apps.
C13_CheckboxesMatchHiddenApps ==
  \A a \in DOMAIN checkboxes :
    checkboxes[a] <=> (\E i \in 1..Len(hiddenApps) : hiddenApps[i] = a)

\* A toggle on, then the remove button of a hidden application with a check box.
C13_Witness ==
  /\ Len(panelLog) = 2
  /\ panelLog[1].op = "toggled" /\ panelLog[1].active
  /\ panelLog[2].op = "remove"
  /\ panelLog[2].app \in DOMAIN checkboxes
  /\ panelLog[2].app \in Range(panelLog[2].before)
  /\ ~checkboxes[panelLog[2].app]
  /\ hiddenApps # << >>

====
